---- MODULE Spec2Model ----
(***************************************************************************)
(* Face-recognition attendance backend (src/src/arcface_service.py,        *)
(* src/src/supabase_service.py, src/src/flask_app.py).                     *)
(*                                                                         *)
(* Representation.  Instants are whole seconds since the epoch (UTC).      *)
(* Embeddings are integer vectors <<x, y>>; similarities and thresholds    *)
(* are cosine values scaled by 100 (0.5 is 50, 0.99 is 99).  A Python dict *)
(* is a sequence of entries in insertion order with unique keys.           *)
(***************************************************************************)
EXTENDS Integers, Sequences, FiniteSets, TLC

VARIABLES
    face_database,         \* ArcFaceService.face_database: entries in dict order
    similarity_threshold,  \* ArcFaceService.similarity_threshold (x100)
    last_recognition,      \* FaceRecognitionApp.last_recognition: user id -> instant
    attendance,            \* rows of the attendance table, in insertion order
    unique,                \* the store enforces uniqueness on (userId, scanDate)
    now,                   \* the wall clock
    proc,                  \* per request thread: position and locals
    enrolled,              \* history: key -> embedding of its last successful enrollment
    embeddings_file,       \* face_embeddings.pkl: the pickled gallery snapshot
    recognitions,          \* history: user id -> instants of its latest recognitions
    refresh,               \* the thread serving POST /refresh: its position and locals
    monitor,               \* AutoReloadManager: its fields and its monitoring threads
    source                 \* the users of the identity source, in table order

vars == <<face_database, similarity_threshold, last_recognition, attendance,
          unique, now, proc, enrolled, embeddings_file, recognitions, refresh, monitor, source>>

----------------------------------------------------------------------------
(* Bounds of the model *)

ClockSpan == 5
\* The number of POST /refresh requests in a run.
MaxRefreshes == 2

(* Program constants *)

max_retries == 3
RetrySleep == 2
RECOGNITION_COOLDOWN == 3
PhOffsetHours == 8
DefaultThreshold == 50

Users == {"u1", "u2"}
Procs == {"p1", "p2"}
NoId == "none"
NoTime == -1
NoDay == -1
NaN == 1000

\* The clock runs over a window that contains 00:00:00 of a UTC+8 day.
ClockBase == (16 * 3600) - 3
Instants == ClockBase .. (ClockBase + ClockSpan)

----------------------------------------------------------------------------
(* Time *)

get_utc_date(t) == t \div (24 * 3600)
get_ph_date(t) == (t + PhOffsetHours * 3600) \div (24 * 3600)

----------------------------------------------------------------------------
(* Similarity Matcher *)

ZeroVec == <<0, 0>>
Unit == {<<5, 0>>, <<0, 5>>, <<4, 3>>, <<3, 4>>, <<-5, 0>>, <<-3, 4>>}
Embeddings == Unit \cup {<<10, 0>>, <<6, 8>>}
NoFace == <<>>

Dot(a, b) == a[1] * b[1] + a[2] * b[2]

\* np.linalg.norm
Norm(e) == CHOOSE n \in 0..20 : n * n = Dot(e, e)

\* x / norm(x), dot, float(): a zero norm divides by zero, which numpy answers
\* with nan and a warning, not with an exception.
calculate_similarity(embedding1, embedding2) ==
    IF Norm(embedding1) = 0 \/ Norm(embedding2) = 0
    THEN NaN
    ELSE (Dot(embedding1, embedding2) * 100) \div (Norm(embedding1) * Norm(embedding2))

\* Python's float >: every comparison with nan is False.
Gt(a, b) == a # NaN /\ b # NaN /\ a > b

NoData == [id |-> NoId, profile |-> FALSE]
None == [user_id |-> NoId, user_data |-> NoData, similarity |-> 0]
ScanStart == [best_match |-> None, best_similarity |-> 0]

ScanEntry_NoThreshold(best, entry, query_embedding, threshold) ==
    LET similarity == calculate_similarity(query_embedding, entry.embedding)
    IN  IF Gt(similarity, best.best_similarity)
        THEN [best_match |-> [user_id |-> entry.key, user_data |-> entry.user_data,
                              similarity |-> similarity],
              best_similarity |-> similarity]
        ELSE best
ScanEntry_LastTie(best, entry, query_embedding, threshold) ==
    LET similarity == calculate_similarity(query_embedding, entry.embedding)
    IN  IF ~Gt(best.best_similarity, similarity) /\ Gt(similarity, threshold)
        THEN [best_match |-> [user_id |-> entry.key, user_data |-> entry.user_data,
                              similarity |-> similarity],
              best_similarity |-> similarity]
        ELSE best
\* One iteration of the loop over face_database.items().
ScanEntry(best, entry, query_embedding, threshold) ==
    LET similarity == calculate_similarity(query_embedding, entry.embedding)
    IN  IF Gt(similarity, best.best_similarity) /\ Gt(similarity, threshold)
        THEN [best_match |-> [user_id |-> entry.key, user_data |-> entry.user_data,
                              similarity |-> similarity],
              best_similarity |-> similarity]
        ELSE best

RECURSIVE ScanFrom(_, _, _, _, _)
ScanFrom(best, db, i, query_embedding, threshold) ==
    IF i > Len(db) THEN best
    ELSE ScanFrom(ScanEntry(best, db[i], query_embedding, threshold), db, i + 1,
                  query_embedding, threshold)

recognize_face_from_image(db, query_embedding, threshold) ==
    IF query_embedding = NoFace THEN None
    ELSE ScanFrom(ScanStart, db, 1, query_embedding, threshold).best_match

----------------------------------------------------------------------------
(* Attendance Ledger: SupabaseService.mark_attendance *)

StorageErrors == {"SSL", "timeout", "connection", "permission"}

\* "SSL" in error_msg or "timeout" in error_msg.lower() or "connection" in ...
IsTransient(err) == err \in {"SSL", "timeout", "connection"}

NoResult == [kind |-> "none", success |-> FALSE, existing |-> FALSE,
             attendance_time |-> NoTime, skip_display |-> FALSE, err |-> "none"]
NoResponse == [kind |-> "none", success |-> FALSE, recognized |-> FALSE,
               duplicate_entry |-> FALSE, user |-> NoId, attendance |-> NoResult]

Idle == [pc |-> "idle", op |-> "none", user_id |-> NoId, user_data |-> NoData,
         attempt |-> 0, today |-> NoDay, current_time |-> NoTime, wake |-> NoTime,
         result |-> NoResult, conflict |-> FALSE, att0 |-> <<>>, suppressed |-> FALSE,
         query |-> NoFace, match |-> None, t |-> NoTime, response |-> NoResponse,
         size |-> 0, cursor |-> 0, best |-> ScanStart, scanned |-> <<>>,
         complete |-> {}, error |-> FALSE, threshold0 |-> 0, new_threshold |-> 0,
         failures |-> 0, retried_other |-> FALSE, before |-> <<>>, status |-> 0]

\* select('*').eq('userId', user_id).eq('scanDate', today)
ExistingAttendance_WrongColumn(att, user_id, today) ==
    LET Test(r) == r.userId = user_id /\ r.scanTime = today IN SelectSeq(att, Test)
ExistingAttendance_NoDate(att, user_id, today) ==
    LET Test(r) == r.userId = user_id IN SelectSeq(att, Test)
ExistingAttendance(att, user_id, today) ==
    LET Test(r) == r.userId = user_id /\ r.scanDate = today IN SelectSeq(att, Test)

\* The store's own key check, when it enforces the constraint.
StoreHasKey(att, user_id, day) ==
    \E i \in 1..Len(att) : att[i].userId = user_id /\ att[i].scanDate = day

attendance_data(r) ==
    [userId |-> r.user_id, scanTime |-> r.current_time, scanDate |-> r.today]

\* The head of an attempt: ph_now, today, current_time.
AttemptHead(r) ==
    [r EXCEPT !.pc = "query", !.today = get_ph_date(now), !.current_time = now]

ResultExisting_WrongColumn(row) ==
    [kind |-> "existing", success |-> TRUE, existing |-> TRUE,
     attendance_time |-> row.scanDate, skip_display |-> TRUE, err |-> "none"]
ResultExisting(row) ==
    [kind |-> "existing", success |-> TRUE, existing |-> TRUE,
     attendance_time |-> row.scanTime, skip_display |-> TRUE, err |-> "none"]
ResultNew(r) ==
    [kind |-> "new", success |-> TRUE, existing |-> FALSE,
     attendance_time |-> r.current_time, skip_display |-> FALSE, err |-> "none"]
ResultError(err) ==
    [kind |-> "error", success |-> FALSE, existing |-> FALSE,
     attendance_time |-> NoTime, skip_display |-> FALSE, err |-> err]

\* except Exception as e: retry a transient error after a sleep, else fail.
\* failures counts the exceptions of the call; retried_other notes a retry
\* after an error that is no transport error.
OnException_RetryAll(r, err) ==
    IF r.attempt < max_retries - 1
    THEN [r EXCEPT !.pc = "sleep", !.attempt = @ + 1, !.wake = now + RetrySleep,
                   !.failures = @ + 1,
                   !.retried_other = @ \/ err \notin {"SSL", "timeout", "connection"}]
    ELSE [r EXCEPT !.pc = "return", !.result = ResultError(err), !.failures = @ + 1]
OnException(r, err) ==
    IF IsTransient(err) /\ r.attempt < max_retries - 1
    THEN [r EXCEPT !.pc = "sleep", !.attempt = @ + 1, !.wake = now + RetrySleep,
                   !.failures = @ + 1,
                   !.retried_other = @ \/ err \notin {"SSL", "timeout", "connection"}]
    ELSE [r EXCEPT !.pc = "return", !.result = ResultError(err), !.failures = @ + 1]

\* A direct call of mark_attendance(user_id, user_data).
MarkAttendance(p, u) ==
    /\ proc[p].pc = "idle"
    /\ proc' = [proc EXCEPT ![p] =
                  AttemptHead([Idle EXCEPT !.op = "mark", !.user_id = u,
                                           !.att0 = attendance])]
    /\ UNCHANGED <<face_database, similarity_threshold, last_recognition,
                   attendance, unique, now, enrolled, embeddings_file, recognitions, refresh, monitor, source>>

QueryOk(p) ==
    /\ proc[p].pc = "query"
    /\ LET existing_attendance ==
             ExistingAttendance(attendance, proc[p].user_id, proc[p].today)
       IN  proc' = [proc EXCEPT ![p] =
                      IF existing_attendance # <<>>
                      THEN [@ EXCEPT !.pc = "return",
                                     !.result = ResultExisting(existing_attendance[1])]
                      ELSE [@ EXCEPT !.pc = "insert"]]
    /\ UNCHANGED <<face_database, similarity_threshold, last_recognition,
                   attendance, unique, now, enrolled, embeddings_file, recognitions, refresh, monitor, source>>

QueryFail(p, err) ==
    /\ proc[p].pc = "query"
    /\ proc' = [proc EXCEPT ![p] = OnException(@, err)]
    /\ UNCHANGED <<face_database, similarity_threshold, last_recognition,
                   attendance, unique, now, enrolled, embeddings_file, recognitions, refresh, monitor, source>>

InsertOk(p) ==
    /\ proc[p].pc = "insert"
    /\ unique => ~StoreHasKey(attendance, proc[p].user_id, proc[p].today)
    /\ attendance' = Append(attendance, attendance_data(proc[p]))
    /\ proc' = [proc EXCEPT ![p] = [@ EXCEPT !.pc = "return",
                                             !.result = ResultNew(proc[p])]]
    /\ UNCHANGED <<face_database, similarity_threshold, last_recognition,
                   unique, now, enrolled, embeddings_file, recognitions, refresh, monitor, source>>

\* The store rejects the insert: the key is already there.
InsertConflict(p) ==
    /\ proc[p].pc = "insert"
    /\ unique /\ StoreHasKey(attendance, proc[p].user_id, proc[p].today)
    /\ proc' = [proc EXCEPT ![p] =
                  OnException([@ EXCEPT !.conflict = TRUE], "duplicate")]
    /\ UNCHANGED <<face_database, similarity_threshold, last_recognition,
                   attendance, unique, now, enrolled, embeddings_file, recognitions, refresh, monitor, source>>

\* The insert raises a transport or permission error; a transport error may
\* reach the caller after the store has committed the row.
InsertFail(p, err, applied) ==
    /\ proc[p].pc = "insert"
    /\ applied => IsTransient(err)
    /\ applied => (unique => ~StoreHasKey(attendance, proc[p].user_id, proc[p].today))
    /\ attendance' = IF applied THEN Append(attendance, attendance_data(proc[p]))
                     ELSE attendance
    /\ proc' = [proc EXCEPT ![p] = OnException(@, err)]
    /\ UNCHANGED <<face_database, similarity_threshold, last_recognition,
                   unique, now, enrolled, embeddings_file, recognitions, refresh, monitor, source>>

\* time.sleep(2); continue
Wake(p) ==
    /\ proc[p].pc = "sleep"
    /\ now >= proc[p].wake
    /\ proc' = [proc EXCEPT ![p] = AttemptHead(@)]
    /\ UNCHANGED <<face_database, similarity_threshold, last_recognition,
                   attendance, unique, now, enrolled, embeddings_file, recognitions, refresh, monitor, source>>

\* The direct caller takes the returned dict.
MarkReturn(p) ==
    /\ proc[p].pc = "return" /\ proc[p].op = "mark"
    /\ proc' = [proc EXCEPT ![p] = Idle]
    /\ UNCHANGED <<face_database, similarity_threshold, last_recognition,
                   attendance, unique, now, enrolled, embeddings_file, recognitions, refresh, monitor, source>>

\* The clock moves forward to an instant of S.
Tick(S) ==
    /\ \E t \in S : t > now /\ now' = t
    /\ UNCHANGED <<face_database, similarity_threshold, last_recognition,
                   attendance, unique, proc, enrolled, embeddings_file, recognitions, refresh, monitor, source>>

----------------------------------------------------------------------------
(* /recognize: recognize_face in flask_app.py *)

Queries == {<<5, 0>>, <<3, 4>>, <<-5, 0>>, NoFace}

ResponseNotRecognized ==
    [NoResponse EXCEPT !.kind = "not_recognized", !.success = TRUE]
ResponseCooldown ==
    [NoResponse EXCEPT !.kind = "cooldown", !.success = TRUE, !.recognized = TRUE]
ResponseError == [NoResponse EXCEPT !.kind = "error"]
ResponseRecognized(r) ==
    [kind |-> "recognized", success |-> TRUE, recognized |-> TRUE,
     duplicate_entry |-> r.result.skip_display, user |-> r.user_data.id,
     attendance |-> r.result]

InCooldown_Le(last, user_id, current_time) ==
    /\ last[user_id] # NoTime
    /\ current_time - last[user_id] <= RECOGNITION_COOLDOWN
\* time_diff < self.RECOGNITION_COOLDOWN, for a user that has an entry
InCooldown(last, user_id, current_time) ==
    /\ last[user_id] # NoTime
    /\ current_time - last[user_id] < RECOGNITION_COOLDOWN

\* result = recognize_face_from_base64(...); user_data = result['user_data'];
\* user_id = user_data['id'] (a KeyError goes to the handler's except).
RecognizeFace(p, q) ==
    /\ proc[p].pc = "idle"
    /\ LET result == recognize_face_from_image(face_database, q, similarity_threshold)
       IN  proc' = [proc EXCEPT ![p] =
             IF result = None
             THEN [Idle EXCEPT !.pc = "responded", !.op = "recognize",
                               !.response = ResponseNotRecognized]
             ELSE IF result.user_data.id = NoId
             THEN [Idle EXCEPT !.pc = "responded", !.op = "recognize",
                               !.match = result, !.response = ResponseError]
             ELSE [Idle EXCEPT !.pc = "cooldown", !.op = "recognize",
                               !.att0 = attendance,
                               !.match = result, !.user_data = result.user_data,
                               !.user_id = result.user_data.id]]
    /\ UNCHANGED <<face_database, similarity_threshold, last_recognition,
                   attendance, unique, now, enrolled, embeddings_file, recognitions, refresh, monitor, source>>

\* latest: the instant of the user's latest matched recognition; passed: that
\* of the latest one the cooldown let through.
NoRecognitions == [u \in Users |-> [latest |-> NoTime, passed |-> NoTime]]

\* current_time = time.time(); the cooldown test and, inside the window, the
\* early return.
CooldownCheck_FallThrough(p) ==
    /\ proc[p].pc = "cooldown"
    /\ proc' = [proc EXCEPT ![p] =
                  [@ EXCEPT !.pc = "stamp", !.t = now,
                            !.suppressed = InCooldown(last_recognition, proc[p].user_id, now)]]
    /\ recognitions' = [recognitions EXCEPT ![proc[p].user_id] = [latest |-> now, passed |-> now]]
    /\ UNCHANGED <<face_database, similarity_threshold, last_recognition,
                   attendance, unique, now, enrolled, embeddings_file, refresh, monitor, source>>
CooldownCheck(p) ==
    /\ proc[p].pc = "cooldown"
    /\ LET suppress == InCooldown(last_recognition, proc[p].user_id, now)
       IN  /\ proc' = [proc EXCEPT ![p] =
                  IF suppress
                  THEN [@ EXCEPT !.pc = "responded", !.t = now, !.suppressed = TRUE,
                                 !.response = ResponseCooldown]
                  ELSE [@ EXCEPT !.pc = "stamp", !.t = now]]
           /\ recognitions' = [recognitions EXCEPT ![proc[p].user_id] =
                  [latest |-> now, passed |-> IF suppress THEN @.passed ELSE now]]
    /\ UNCHANGED <<face_database, similarity_threshold, last_recognition,
                   attendance, unique, now, enrolled, embeddings_file, refresh, monitor, source>>

\* self.last_recognition[user_id] = current_time, then mark_attendance is entered.
CooldownStamp_Now(p) ==
    /\ proc[p].pc = "stamp"
    /\ last_recognition' = [last_recognition EXCEPT ![proc[p].user_id] = now]
    /\ proc' = [proc EXCEPT ![p] = AttemptHead([@ EXCEPT !.att0 = attendance])]
    /\ UNCHANGED <<face_database, similarity_threshold, attendance, unique, now,
                   enrolled, embeddings_file, recognitions, refresh, monitor, source>>
CooldownStamp(p) ==
    /\ proc[p].pc = "stamp"
    /\ last_recognition' = [last_recognition EXCEPT ![proc[p].user_id] = proc[p].t]
    /\ proc' = [proc EXCEPT ![p] = AttemptHead([@ EXCEPT !.att0 = attendance])]
    /\ UNCHANGED <<face_database, similarity_threshold, attendance, unique, now,
                   enrolled, embeddings_file, recognitions, refresh, monitor, source>>

\* The response built from attendance_result; user_data['firstName'] and the
\* other unconditional lookups raise KeyError when the profile fields are absent.
RecognizeRespond(p) ==
    /\ proc[p].pc = "return" /\ proc[p].op = "recognize"
    /\ proc' = [proc EXCEPT ![p] =
                  [@ EXCEPT !.pc = "responded",
                            !.response = IF proc[p].user_data.profile
                                         THEN ResponseRecognized(proc[p])
                                         ELSE ResponseError]]
    /\ UNCHANGED <<face_database, similarity_threshold, last_recognition,
                   attendance, unique, now, enrolled, embeddings_file, recognitions, refresh, monitor, source>>

Finish(p) ==
    /\ proc[p].pc = "responded"
    /\ proc' = [proc EXCEPT ![p] = Idle]
    /\ UNCHANGED <<face_database, similarity_threshold, last_recognition,
                   attendance, unique, now, enrolled, embeddings_file, recognitions, refresh, monitor, source>>

----------------------------------------------------------------------------
(* Embedding Gallery: the dict face_database and its snapshot file *)

DetailIds == {"d1"}
GalleryKeys == Users \cup DetailIds

KeysOf(db) == {db[i].key : i \in 1..Len(db)}
IndexOf(db, key) == CHOOSE i \in 1..Len(db) : db[i].key = key

\* self.face_database[key] = value: a present key keeps its place in the
\* iteration order, a new key goes last.
DictSet_Append(db, key, value) ==
    Append(db, [key |-> key, embedding |-> value.embedding,
                user_data |-> value.user_data])
DictSet(db, key, value) ==
    LET entry == [key |-> key, embedding |-> value.embedding,
                  user_data |-> value.user_data]
    IN  IF key \in KeysOf(db)
        THEN [db EXCEPT ![IndexOf(db, key)] = entry]
        ELSE Append(db, entry)

\* del self.face_database[key]
DictDel(db, key) ==
    LET Keep(e) == e.key # key IN SelectSeq(db, Keep)

NoFile == [state |-> "missing", data |-> <<>>]
SaveOutcomes == {"ok", "open_failed", "dump_failed"}

\* save_face_database: open(..., 'wb') truncates, pickle.dump writes; an
\* exception is logged and swallowed.
save_face_database(file, db, outcome) ==
    CASE outcome = "ok" -> [state |-> "ok", data |-> db]
      [] outcome = "open_failed" -> file
      [] outcome = "dump_failed" -> [state |-> "corrupt", data |-> <<>>]

\* Embeddings the face model returns (normed_embedding) and the ones
\* np.random.rand gives a placeholder image (not normalised).
FaceEmbeddings == {<<5, 0>>, <<4, 3>>, <<0, 5>>, <<-5, 0>>}
MockEmbeddings == {<<10, 0>>}

\* Sequences over S of length at most n, and those without repetition.
SeqUpTo(S, n) == UNION {[1..k -> S] : k \in 0..n}
Orders(S) ==
    {s \in SeqUpTo(S, Cardinality(S)) : \A i, j \in 1..Len(s) : s[i] = s[j] => i = j}

\* What a user's faceScannedUrl and its image yield: the embedding extracted
\* from the downloaded image, or NoFace when the download or the detection
\* fails.
ProfileImages ==
    [faceScannedUrl : {""}, image : {NoFace}]
        \cup [faceScannedUrl : {"placeholder"}, image : MockEmbeddings]
        \cup [faceScannedUrl : {"url"}, image : FaceEmbeddings \cup {NoFace}]

\* The list get_all_users_with_profiles returns: one row per user id.
UsersData(order, images) ==
    [i \in 1..Len(order) |->
        [id |-> order[i], faceScannedUrl |-> images[order[i]].faceScannedUrl,
         image |-> images[order[i]].image]]
ProfileUsers ==
    {UsersData(order, images) : order \in Orders(Users), images \in [Users -> ProfileImages]}

\* register_user_face(user['id'], user, user['faceScannedUrl']): the gallery
\* after the call.
register_user_face(db, user) ==
    IF user.image = NoFace
    THEN db
    ELSE DictSet(db, user.id, [embedding |-> user.image,
                               user_data |-> [id |-> user.id, profile |-> TRUE]])

\* The loop of register_multiple_faces from user i on.
RECURSIVE RegisterFrom(_, _, _)
RegisterFrom(db, users_data, i) ==
    IF i > Len(users_data) THEN db
    ELSE RegisterFrom(IF users_data[i].faceScannedUrl # ""
                      THEN register_user_face(db, users_data[i]) ELSE db,
                      users_data, i + 1)

\* The history of successful enrollments, kept beside the gallery.
\* by: key -> the embedding last enrolled; replaced: some enrollment met a
\* key that was present.
Record(h, key, e) ==
    [by |-> [k \in (DOMAIN h.by) \cup {key} |-> IF k = key THEN e ELSE h.by[k]],
     replaced |-> h.replaced \/ key \in DOMAIN h.by]
Forget(h, key) ==
    [h EXCEPT !.by = [k \in (DOMAIN h.by) \ {key} |-> h.by[k]]]

RECURSIVE RecordFrom(_, _, _)
RecordFrom(h, users_data, i) ==
    IF i > Len(users_data) THEN h
    ELSE RecordFrom(IF users_data[i].faceScannedUrl # "" /\ users_data[i].image # NoFace
                    THEN Record(h, users_data[i].id, users_data[i].image) ELSE h,
                    users_data, i + 1)

\* register_multiple_faces(users_data), run without interruption.
RegisterMultipleFaces(users_data, outcome) ==
    /\ proc["p1"].pc = "idle"
    /\ face_database' = RegisterFrom(face_database, users_data, 1)
    /\ enrolled' = RecordFrom(enrolled, users_data, 1)
    /\ embeddings_file' = save_face_database(embeddings_file, face_database', outcome)
    /\ UNCHANGED <<similarity_threshold, last_recognition, attendance, unique, now, proc,
                   recognitions, refresh, monitor, source>>

\* enroll_face_from_base64(user_detail_id, user_id, image, user_data): image is
\* what extract_face_info yields.
EnrollFaceFromBase64(user_detail_id, user_id, image, user_data, outcome) ==
    /\ proc["p1"].pc = "idle"
    /\ IF image = NoFace
       THEN UNCHANGED <<face_database, enrolled, embeddings_file, recognitions, refresh, monitor, source>>
       ELSE /\ face_database' = DictSet(face_database, user_detail_id,
                                        [embedding |-> image, user_data |-> user_data])
            /\ enrolled' = Record(enrolled, user_detail_id, image)
            /\ embeddings_file' = save_face_database(embeddings_file, face_database', outcome)
    /\ UNCHANGED <<similarity_threshold, last_recognition, attendance, unique, now, proc,
                   recognitions, refresh, monitor, source>>

\* The list get_users_for_face_enrollment returns (user_details rows: id,
\* userId, names, faceScannedUrl), one row per detail id, with what each
\* image yields.
DetailUsers ==
    {[i \in 1..Len(order) |->
         [id |-> order[i], userId |-> owner[order[i]], faceScannedUrl |-> "url",
          image |-> images[order[i]]]] :
       order \in Orders(DetailIds), owner \in [DetailIds -> Users],
       images \in [DetailIds -> FaceEmbeddings \cup {NoFace}]}

sync_user(db, user) ==
    IF user.image = NoFace
    THEN db
    ELSE DictSet(db, user.id, [embedding |-> user.image,
                               user_data |-> [id |-> user.id, profile |-> FALSE]])

RECURSIVE SyncFrom(_, _, _)
SyncFrom(db, users_to_enroll, i) ==
    IF i > Len(users_to_enroll) THEN db
    ELSE SyncFrom(sync_user(db, users_to_enroll[i]), users_to_enroll, i + 1)

\* sync_faces_from_database(): nothing is touched when no user needs enrollment.
SyncFacesFromDatabase(users_to_enroll, outcome) ==
    /\ proc["p1"].pc = "idle"
    /\ IF users_to_enroll = <<>>
       THEN UNCHANGED <<face_database, enrolled, embeddings_file, recognitions, refresh, monitor, source>>
       ELSE /\ face_database' = SyncFrom(face_database, users_to_enroll, 1)
            /\ enrolled' = RecordFrom(enrolled, users_to_enroll, 1)
            /\ embeddings_file' = save_face_database(embeddings_file, face_database', outcome)
    /\ UNCHANGED <<similarity_threshold, last_recognition, attendance, unique, now, proc,
                   recognitions, refresh, monitor, source>>

\* remove_face(user_id)
RemoveFace(user_id, outcome) ==
    /\ proc["p1"].pc = "idle"
    /\ IF user_id \in KeysOf(face_database)
       THEN /\ face_database' = DictDel(face_database, user_id)
            /\ enrolled' = Forget(enrolled, user_id)
            /\ embeddings_file' = save_face_database(embeddings_file, face_database', outcome)
       ELSE UNCHANGED <<face_database, enrolled, embeddings_file, recognitions, refresh, monitor, source>>
    /\ UNCHANGED <<similarity_threshold, last_recognition, attendance, unique, now, proc,
                   recognitions, refresh, monitor, source>>

\* Whether a call of save_face_database raises: its except clause logs every
\* exception of open and pickle.dump and returns.
save_raises_Propagates(outcome) == outcome # "ok"
save_raises(outcome) == FALSE

\* remove_face(user_id): the value returned and the gallery after the call.
remove_face_NoTest(db, user_id) ==
    [success |-> TRUE, db |-> DictDel(db, user_id)]
remove_face(db, user_id) ==
    IF user_id \in KeysOf(db)
    THEN [success |-> TRUE, db |-> DictDel(db, user_id)]
    ELSE [success |-> FALSE, db |-> db]

\* DELETE /faces/<user_id>: 200 when remove_face returned True, 404 otherwise;
\* an exception inside remove_face's try block makes it return False.
\* before: the gallery the request found.
ResponseRemove(success) ==
    [NoResponse EXCEPT !.kind = IF success THEN "removed" ELSE "not_found",
                       !.success = success]
RemoveRoute(p, user_id, outcome) ==
    /\ proc[p].pc = "idle"
    /\ LET r == remove_face(face_database, user_id)
           success == r.success /\ ~save_raises(outcome)
       IN  /\ face_database' = r.db
           /\ enrolled' = IF r.success THEN Forget(enrolled, user_id) ELSE enrolled
           /\ embeddings_file' = IF r.success
                                 THEN save_face_database(embeddings_file, r.db, outcome)
                                 ELSE embeddings_file
           /\ proc' = [proc EXCEPT ![p] =
                         [Idle EXCEPT !.pc = "responded", !.op = "remove",
                                      !.user_id = user_id, !.before = face_database,
                                      !.status = IF success THEN 200 ELSE 404,
                                      !.response = ResponseRemove(success)]]
    /\ UNCHANGED <<similarity_threshold, last_recognition, attendance, unique, now,
                   recognitions, refresh, monitor, source>>

\* Threshold values a caller may send (x100).
ThresholdInputs == {0 - 10, 0, 50, 99, 100, 110, NaN}

\* update_threshold(new_threshold): the value returned and the threshold
\* after the call. A nan passes neither comparison.
update_threshold_NoRange(threshold, new_threshold) ==
    [success |-> TRUE, threshold |-> new_threshold]
update_threshold(threshold, new_threshold) ==
    IF new_threshold # NaN /\ 0 <= new_threshold /\ new_threshold <= 100
    THEN [success |-> TRUE, threshold |-> new_threshold]
    ELSE [success |-> FALSE, threshold |-> threshold]

UpdateThreshold(new_threshold) ==
    /\ proc["p1"].pc = "idle"
    /\ similarity_threshold' = update_threshold(similarity_threshold, new_threshold).threshold
    /\ UNCHANGED <<face_database, last_recognition, attendance, unique, now, proc,
                   enrolled, embeddings_file, recognitions, refresh, monitor, source>>

\* POST /threshold with a numeric body: float(data['threshold']), the call
\* and the response, 200 on success and 400 otherwise.
ResponseThreshold(success) ==
    [NoResponse EXCEPT !.kind = "threshold", !.success = success]
ThresholdRoute(p, threshold) ==
    /\ proc[p].pc = "idle"
    /\ LET r == update_threshold(similarity_threshold, threshold)
       IN  /\ similarity_threshold' = r.threshold
           /\ proc' = [proc EXCEPT ![p] =
                  [Idle EXCEPT !.pc = "responded", !.op = "threshold",
                               !.new_threshold = threshold,
                               !.threshold0 = similarity_threshold,
                               !.response = ResponseThreshold(r.success)]]
    /\ UNCHANGED <<face_database, last_recognition, attendance, unique, now,
                   enrolled, embeddings_file, recognitions, refresh, monitor, source>>

\* recognize_face_from_image(image), run without interruption; q is what
\* extract_face_embedding yields.
RecognizeFaceFromImage(p, q) ==
    /\ proc[p].pc = "idle"
    /\ proc' = [proc EXCEPT ![p] =
                  [Idle EXCEPT !.pc = "matched", !.op = "match", !.query = q,
                     !.match = recognize_face_from_image(face_database, q,
                                                         similarity_threshold)]]
    /\ UNCHANGED <<face_database, similarity_threshold, last_recognition,
                   attendance, unique, now, enrolled, embeddings_file, recognitions, refresh, monitor, source>>

MatchReturn(p) ==
    /\ proc[p].pc = "matched"
    /\ proc' = [proc EXCEPT ![p] = Idle]
    /\ UNCHANGED <<face_database, similarity_threshold, last_recognition,
                   attendance, unique, now, enrolled, embeddings_file, recognitions, refresh, monitor, source>>

\* register_user_face(user['id'], user, url): the key is the user id and
\* user_data is the merged profile of get_all_users_with_profiles.
RegisteredEntry(u, e) ==
    [key |-> u, embedding |-> e, user_data |-> [id |-> u, profile |-> TRUE]]

\* AutoReloadManager.__init__, and a monitoring thread that is not running.
\* users: the list the tick fetched; pass: the tick ran a re-enrollment;
\* failed: the tick ended in the except clause or fetched nothing.
MonitorThreads == {"m1", "m2"}
NoThread == [pc |-> "none", users |-> <<>>, pass |-> FALSE, failed |-> FALSE]
NoMonitor == [phase |-> "init", auto_reload_enabled |-> FALSE, known_user_count |-> 0,
              threads |-> [m \in MonitorThreads |-> NoThread]]

\* users: the list fetched; i: the user the registration loop is at; old: the
\* gallery clear() emptied; served: the refreshes begun so far.
NoRefresh == [pc |-> "idle", users |-> <<>>, i |-> 0, old |-> <<>>, served |-> 0]

NoEnrollment == [by |-> [k \in {} |-> ZeroVec], replaced |-> FALSE]

----------------------------------------------------------------------------
(* Gallery operations and recognitions, one at a time *)

GalleryQueries == {<<5, 0>>, <<3, 4>>, NoFace}
ClientUserData == {NoData, [id |-> "u1", profile |-> TRUE]}

InitGallery ==
    /\ face_database = <<>>
    /\ similarity_threshold = DefaultThreshold
    /\ last_recognition = [u \in Users |-> NoTime]
    /\ attendance = <<>>
    /\ unique = TRUE
    /\ now = ClockBase
    /\ proc = [p \in Procs |-> Idle]
    /\ enrolled = NoEnrollment
    /\ embeddings_file = NoFile
    /\ recognitions = NoRecognitions
    /\ refresh = NoRefresh
    /\ monitor = NoMonitor
    /\ source = <<>>

NextGallery ==
    \/ \E users_data \in ProfileUsers :
          RegisterMultipleFaces(users_data, "ok")
    \/ \E d \in DetailIds, u \in Users, image \in FaceEmbeddings \cup {NoFace},
          user_data \in ClientUserData :
          EnrollFaceFromBase64(d, u, image, user_data, "ok")
    \/ \E users_to_enroll \in DetailUsers :
          SyncFacesFromDatabase(users_to_enroll, "ok")
    \/ \E k \in GalleryKeys : RemoveFace(k, "ok")
    \/ \E t \in ThresholdInputs : UpdateThreshold(t)
    \/ \E q \in GalleryQueries : RecognizeFaceFromImage("p1", q)
    \/ MatchReturn("p1")

SpecGallery == InitGallery /\ [][NextGallery]_vars

----------------------------------------------------------------------------
(* POST /refresh beside a recognition, statement by statement *)

\* The users a refresh fetches.
RefreshImages == {<<5, 0>>, <<0, 5>>, NoFace}
RefreshUsers == {users \in ProfileUsers :
                    \A i \in 1..Len(users) : users[i].image \in RefreshImages}

\* The gallery as the last completed replacement left it.
CompleteGallery == IF refresh.pc = "register" THEN refresh.old ELSE face_database

\* users = get_all_users_with_profiles(); no users is answered with 404.
RefreshBegin(users) ==
    /\ refresh.pc = "idle"
    /\ refresh.served < MaxRefreshes
    /\ refresh' = IF users = <<>> THEN [refresh EXCEPT !.served = @ + 1]
                  ELSE [refresh EXCEPT !.pc = "clear", !.users = users,
                                       !.served = @ + 1]
    /\ UNCHANGED <<face_database, similarity_threshold, last_recognition, attendance,
                   unique, now, proc, enrolled, embeddings_file, recognitions, monitor, source>>

\* self.arcface_service.face_database.clear()
RefreshClear ==
    /\ refresh.pc = "clear"
    /\ face_database' = <<>>
    /\ enrolled' = [enrolled EXCEPT !.by = NoEnrollment.by]
    /\ refresh' = [refresh EXCEPT !.pc = "register", !.i = 1, !.old = face_database]
    /\ UNCHANGED <<similarity_threshold, last_recognition, attendance, unique, now,
                   proc, embeddings_file, recognitions, monitor, source>>

\* One iteration of the loop of register_multiple_faces. With the last one the
\* replacement is complete, for every scan that is under way too.
RefreshRegister ==
    /\ refresh.pc = "register"
    /\ LET user == refresh.users[refresh.i]
           last == refresh.i = Len(refresh.users)
       IN  /\ face_database' = IF user.faceScannedUrl # ""
                               THEN register_user_face(face_database, user)
                               ELSE face_database
           /\ enrolled' = IF user.faceScannedUrl # "" /\ user.image # NoFace
                          THEN Record(enrolled, user.id, user.image) ELSE enrolled
           /\ refresh' = IF last THEN [refresh EXCEPT !.pc = "save"]
                         ELSE [refresh EXCEPT !.i = @ + 1]
           /\ proc' = [p \in Procs |->
                         IF last /\ proc[p].pc = "scan"
                         THEN [proc[p] EXCEPT !.complete = @ \cup {face_database'}]
                         ELSE proc[p]]
    /\ UNCHANGED <<similarity_threshold, last_recognition, attendance, unique, now,
                   embeddings_file, recognitions, monitor, source>>

\* self.save_face_database() and the response.
RefreshSave(outcome) ==
    /\ refresh.pc = "save"
    /\ embeddings_file' = save_face_database(embeddings_file, face_database, outcome)
    /\ refresh' = [NoRefresh EXCEPT !.served = refresh.served]
    /\ UNCHANGED <<face_database, similarity_threshold, last_recognition, attendance,
                   unique, now, proc, enrolled, recognitions, monitor, source>>

\* recognize_face_from_image up to the loop: the embedding of the image and
\* iter(self.face_database.items()), which notes the size of the dict.
ScanBegin(p, q) ==
    /\ proc[p].pc = "idle"
    /\ proc' = [proc EXCEPT ![p] =
                  IF q = NoFace
                  THEN [Idle EXCEPT !.pc = "matched", !.op = "match", !.query = q]
                  ELSE [Idle EXCEPT !.pc = "scan", !.op = "match", !.query = q,
                                    !.size = Len(face_database), !.cursor = 1,
                                    !.threshold0 = similarity_threshold,
                                    !.complete = {CompleteGallery}]]
    /\ UNCHANGED <<face_database, similarity_threshold, last_recognition, attendance,
                   unique, now, enrolled, embeddings_file, recognitions, refresh, monitor, source>>

\* next() of the iterator and the loop body: RuntimeError when the size of
\* the dict is not the one noted, which the except clause answers with None;
\* the end of the loop when no entry is left at or after the cursor.
ScanStep(p) ==
    /\ proc[p].pc = "scan"
    /\ proc' = [proc EXCEPT ![p] =
                  IF Len(face_database) # proc[p].size
                  THEN [@ EXCEPT !.pc = "matched", !.match = None, !.error = TRUE]
                  ELSE IF proc[p].cursor > Len(face_database)
                  THEN [@ EXCEPT !.pc = "matched", !.match = proc[p].best.best_match]
                  ELSE [@ EXCEPT !.cursor = @ + 1,
                                 !.scanned = Append(@, face_database[proc[p].cursor]),
                                 !.best = ScanEntry(@, face_database[proc[p].cursor],
                                                    proc[p].query, similarity_threshold)]]
    /\ UNCHANGED <<face_database, similarity_threshold, last_recognition, attendance,
                   unique, now, enrolled, embeddings_file, recognitions, refresh, monitor, source>>

InitRefresh == InitGallery

NextRefresh ==
    \/ \E users \in RefreshUsers : RefreshBegin(users)
    \/ RefreshClear
    \/ RefreshRegister
    \/ RefreshSave("ok")
    \/ \E q \in GalleryQueries : ScanBegin("p1", q)
    \/ ScanStep("p1")
    \/ MatchReturn("p1")

SpecRefresh == InitRefresh /\ [][NextRefresh]_vars


----------------------------------------------------------------------------------------------------------------------------------------
(* POST /threshold beside a recognition *)

\* The galleries initialize_on_startup leaves: the users of the source that
\* have a usable image, registered in the order fetched.
StartupGalleries == {RegisterFrom(<<>>, users, 1) : users \in RefreshUsers}

InitThreshold ==
    /\ face_database \in StartupGalleries
    /\ similarity_threshold = DefaultThreshold
    /\ last_recognition = [u \in Users |-> NoTime]
    /\ attendance = <<>>
    /\ unique = TRUE
    /\ now = ClockBase
    /\ proc = [p \in Procs |-> Idle]
    /\ enrolled = [by |-> [k \in KeysOf(face_database) |->
                             face_database[IndexOf(face_database, k)].embedding],
                   replaced |-> FALSE]
    /\ embeddings_file = save_face_database(NoFile, face_database, "ok")
    /\ recognitions = NoRecognitions
    /\ refresh = NoRefresh
    /\ monitor = NoMonitor
    /\ source = <<>>

NextThreshold ==
    \/ \E t \in ThresholdInputs : ThresholdRoute("p2", t)
    \/ Finish("p2")
    \/ \E q \in GalleryQueries : ScanBegin("p1", q)
    \/ ScanStep("p1")
    \/ MatchReturn("p1")

SpecThreshold == InitThreshold /\ [][NextThreshold]_vars


----------------------------------------------------------------------------
(* mark_attendance called by one thread at a time, storage faults included *)

InitLedger ==
    /\ face_database = <<>>
    /\ similarity_threshold = DefaultThreshold
    /\ last_recognition = [u \in Users |-> NoTime]
    /\ attendance = <<>>
    /\ unique \in BOOLEAN
    /\ now = ClockBase
    /\ proc = [p \in Procs |-> Idle]
    /\ enrolled = NoEnrollment
    /\ embeddings_file = NoFile
    /\ recognitions = NoRecognitions
    /\ refresh = NoRefresh
    /\ monitor = NoMonitor
    /\ source = <<>>

NextLedger ==
    \/ Tick(Instants)
    \/ \E u \in Users : MarkAttendance("p1", u)
    \/ QueryOk("p1")
    \/ \E err \in StorageErrors : QueryFail("p1", err)
    \/ InsertOk("p1")
    \/ \E err \in StorageErrors, applied \in BOOLEAN : InsertFail("p1", err, applied)
    \/ Wake("p1")
    \/ MarkReturn("p1")

SpecLedger == InitLedger /\ [][NextLedger]_vars

----------------------------------------------------------------------------
(* /recognize requests served one at a time, storage faults included *)

InitSeq ==
    /\ face_database = <<RegisteredEntry("u1", <<5, 0>>), RegisteredEntry("u2", <<0, 5>>)>>
    /\ similarity_threshold = DefaultThreshold
    /\ last_recognition = [u \in Users |-> NoTime]
    /\ attendance = <<>>
    /\ unique \in BOOLEAN
    /\ now = ClockBase
    /\ proc = [p \in Procs |-> Idle]
    /\ enrolled = NoEnrollment
    /\ embeddings_file = NoFile
    /\ recognitions = NoRecognitions
    /\ refresh = NoRefresh
    /\ monitor = NoMonitor
    /\ source = <<>>

NextSeq ==
    \/ Tick(Instants)
    \/ \E q \in Queries : RecognizeFace("p1", q)
    \/ CooldownCheck("p1")
    \/ CooldownStamp("p1")
    \/ QueryOk("p1")
    \/ \E err \in StorageErrors : QueryFail("p1", err)
    \/ InsertOk("p1")
    \/ \E err \in StorageErrors, applied \in BOOLEAN : InsertFail("p1", err, applied)
    \/ Wake("p1")
    \/ RecognizeRespond("p1")
    \/ Finish("p1")

SpecSeq == InitSeq /\ [][NextSeq]_vars

----------------------------------------------------------------------------
(* /recognize over several days, the storage answering every call *)

\* Instants on three days of the UTC+8 calendar: the last seconds of a day,
\* the first of the next (same UTC day), the morning after the UTC date has
\* changed as well, and the day after.
DayInstants ==
    {ClockBase, ClockBase + 3, ClockBase + 3 + 9 * 3600, ClockBase + 3 + 24 * 3600}

InitDays == InitSeq

NextDays ==
    \/ Tick(DayInstants)
    \/ \E q \in Queries : RecognizeFace("p1", q)
    \/ CooldownCheck("p1")
    \/ CooldownStamp("p1")
    \/ QueryOk("p1")
    \/ InsertOk("p1")
    \/ RecognizeRespond("p1")
    \/ Finish("p1")

SpecDays == InitDays /\ [][NextDays]_vars

----------------------------------------------------------------------------
(* Auto-Reload Monitor: AutoReloadManager and initialize_on_startup *)

\* The rows of the identity source: a user with a usable face image or with
\* no image.
SourceRows ==
    {[id |-> "u1", faceScannedUrl |-> "url", image |-> <<5, 0>>],
     [id |-> "u2", faceScannedUrl |-> "url", image |-> <<0, 5>>],
     [id |-> "u2", faceScannedUrl |-> "", image |-> NoFace]}
SourceIds(src) == {src[i].id : i \in 1..Len(src)}

\* The gallery FaceRecognitionApp.__init__ leaves: load_embeddings_from_database
\* clears it and stores the rows of the face_embeddings table, keyed by
\* user_detail_id, with a user_data that has no 'id'.
LoadedGalleries ==
    {<<>>, <<[key |-> "d1", embedding |-> <<0, 5>>, user_data |-> NoData]>>}

\* A user is added to the source, or removed from it.
SourceAdd(row) ==
    /\ row.id \notin SourceIds(source)
    /\ source' = Append(source, row)
    /\ UNCHANGED <<face_database, similarity_threshold, last_recognition, attendance,
                   unique, now, proc, enrolled, embeddings_file, recognitions, refresh,
                   monitor>>
SourceRemove(i) ==
    /\ i \in 1..Len(source)
    /\ source' = SubSeq(source, 1, i - 1) \o SubSeq(source, i + 1, Len(source))
    /\ UNCHANGED <<face_database, similarity_threshold, last_recognition, attendance,
                   unique, now, proc, enrolled, embeddings_file, recognitions, refresh,
                   monitor>>

\* start_monitoring(): a new thread runs _monitor_loop, unless monitoring is
\* enabled already.
start_monitoring(mon, m) ==
    IF mon.auto_reload_enabled THEN mon
    ELSE [mon EXCEPT !.auto_reload_enabled = TRUE,
                     !.threads[m] = [NoThread EXCEPT !.pc = "test"]]

\* initialize_on_startup(): fetched is what get_all_users_with_profiles
\* returns, the users or nothing.
InitializeOnStartup(fetched, m) ==
    /\ monitor.phase = "init"
    /\ fetched \in {source, <<>>}
    /\ LET load == Len(face_database) = 0 /\ fetched # <<>>
       IN  /\ face_database' = IF load THEN RegisterFrom(face_database, fetched, 1)
                               ELSE face_database
           /\ enrolled' = IF load THEN RecordFrom(enrolled, fetched, 1) ELSE enrolled
           /\ embeddings_file' = IF load
                                 THEN save_face_database(embeddings_file, face_database', "ok")
                                 ELSE embeddings_file
           /\ monitor' = start_monitoring(
                 [monitor EXCEPT !.phase = "running",
                                 !.known_user_count = IF load THEN Len(fetched) ELSE @], m)
    /\ UNCHANGED <<similarity_threshold, last_recognition, attendance, unique, now,
                   proc, recognitions, refresh, source>>

\* POST /auto-reload/start and POST /auto-reload/stop
StartMonitoring(m) ==
    /\ monitor.phase = "running"
    /\ monitor.threads[m].pc = "none"
    /\ monitor' = start_monitoring(monitor, m)
    /\ UNCHANGED <<face_database, similarity_threshold, last_recognition, attendance,
                   unique, now, proc, enrolled, embeddings_file, recognitions, refresh,
                   source>>
StopMonitoring ==
    /\ monitor.phase = "running"
    /\ monitor' = [monitor EXCEPT !.auto_reload_enabled = FALSE]
    /\ UNCHANGED <<face_database, similarity_threshold, last_recognition, attendance,
                   unique, now, proc, enrolled, embeddings_file, recognitions, refresh,
                   source>>

\* while self.auto_reload_enabled: the thread ends when it is not. failed
\* still tells how the tick before ended.
MonitorTest_Forever(m) ==
    /\ monitor.threads[m].pc = "test"
    /\ monitor' = [monitor EXCEPT !.threads[m] = [@ EXCEPT !.pc = "fetch", !.pass = FALSE]]
    /\ UNCHANGED <<face_database, similarity_threshold, last_recognition, attendance,
                   unique, now, proc, enrolled, embeddings_file, recognitions, refresh,
                   source>>
MonitorTest(m) ==
    /\ monitor.threads[m].pc = "test"
    /\ monitor' = [monitor EXCEPT !.threads[m] =
                     IF monitor.auto_reload_enabled
                     THEN [@ EXCEPT !.pc = "fetch", !.pass = FALSE]
                     ELSE NoThread]
    /\ UNCHANGED <<face_database, similarity_threshold, last_recognition, attendance,
                   unique, now, proc, enrolled, embeddings_file, recognitions, refresh,
                   source>>

\* users = get_all_users_with_profiles(): the users, or None when the source
\* cannot be read.
MonitorFetch(m, reachable) ==
    /\ monitor.threads[m].pc = "fetch"
    /\ monitor' = [monitor EXCEPT !.threads[m] =
                     [@ EXCEPT !.pc = "compare",
                               !.users = IF reachable THEN source ELSE <<>>,
                               !.failed = ~reachable]]
    /\ UNCHANGED <<face_database, similarity_threshold, last_recognition, attendance,
                   unique, now, proc, enrolled, embeddings_file, recognitions, refresh,
                   source>>

\* current_count = len(users) if users else 0, and the two branches: a known
\* count of 0 takes the fetched count; a greater fetched count runs
\* register_multiple_faces(users) and is taken.
MonitorCompare_GreaterOrEqual(m) ==
    /\ monitor.threads[m].pc = "compare"
    /\ LET users == monitor.threads[m].users
           current_count == Len(users)
           first == monitor.known_user_count = 0
           reload == ~first /\ current_count >= monitor.known_user_count
       IN  /\ face_database' = IF reload THEN RegisterFrom(face_database, users, 1)
                               ELSE face_database
           /\ enrolled' = IF reload THEN RecordFrom(enrolled, users, 1) ELSE enrolled
           /\ embeddings_file' = IF reload
                                 THEN save_face_database(embeddings_file, face_database', "ok")
                                 ELSE embeddings_file
           /\ monitor' = [monitor EXCEPT
                 !.known_user_count = IF first \/ reload THEN current_count ELSE @,
                 !.threads[m] = [@ EXCEPT !.pc = "sleep", !.users = <<>>, !.pass = reload]]
    /\ UNCHANGED <<similarity_threshold, last_recognition, attendance, unique, now,
                   proc, recognitions, refresh, source>>
MonitorCompare(m) ==
    /\ monitor.threads[m].pc = "compare"
    /\ LET users == monitor.threads[m].users
           current_count == Len(users)
           first == monitor.known_user_count = 0
           reload == ~first /\ current_count > monitor.known_user_count
       IN  /\ face_database' = IF reload THEN RegisterFrom(face_database, users, 1)
                               ELSE face_database
           /\ enrolled' = IF reload THEN RecordFrom(enrolled, users, 1) ELSE enrolled
           /\ embeddings_file' = IF reload
                                 THEN save_face_database(embeddings_file, face_database', "ok")
                                 ELSE embeddings_file
           /\ monitor' = [monitor EXCEPT
                 !.known_user_count = IF first \/ reload THEN current_count ELSE @,
                 !.threads[m] = [@ EXCEPT !.pc = "sleep", !.users = <<>>, !.pass = reload]]
    /\ UNCHANGED <<similarity_threshold, last_recognition, attendance, unique, now,
                   proc, recognitions, refresh, source>>

\* An exception in the try block: logged, and the loop goes on to its sleep.
MonitorRaise_Ends(m) ==
    /\ monitor.threads[m].pc \in {"fetch", "compare"}
    /\ monitor' = [monitor EXCEPT !.threads[m] = [NoThread EXCEPT !.failed = TRUE]]
    /\ UNCHANGED <<face_database, similarity_threshold, last_recognition, attendance,
                   unique, now, proc, enrolled, embeddings_file, recognitions, refresh,
                   source>>
MonitorRaise(m) ==
    /\ monitor.threads[m].pc \in {"fetch", "compare"}
    /\ monitor' = [monitor EXCEPT !.threads[m] =
                     [@ EXCEPT !.pc = "sleep", !.users = <<>>, !.failed = TRUE]]
    /\ UNCHANGED <<face_database, similarity_threshold, last_recognition, attendance,
                   unique, now, proc, enrolled, embeddings_file, recognitions, refresh,
                   source>>

\* time.sleep(self.check_interval)
MonitorSleep(m) ==
    /\ monitor.threads[m].pc = "sleep"
    /\ monitor' = [monitor EXCEPT !.threads[m] = [@ EXCEPT !.pc = "test"]]
    /\ UNCHANGED <<face_database, similarity_threshold, last_recognition, attendance,
                   unique, now, proc, enrolled, embeddings_file, recognitions, refresh,
                   source>>

InitMonitor ==
    /\ face_database \in LoadedGalleries
    /\ similarity_threshold = DefaultThreshold
    /\ last_recognition = [u \in Users |-> NoTime]
    /\ attendance = <<>>
    /\ unique = TRUE
    /\ now = ClockBase
    /\ proc = [p \in Procs |-> Idle]
    /\ enrolled = [by |-> [k \in KeysOf(face_database) |->
                             face_database[IndexOf(face_database, k)].embedding],
                   replaced |-> FALSE]
    /\ embeddings_file = NoFile
    /\ recognitions = NoRecognitions
    /\ refresh = NoRefresh
    /\ monitor = NoMonitor
    /\ source = <<>>

NextMonitor ==
    \/ \E row \in SourceRows : SourceAdd(row)
    \/ \E i \in 1..Len(source) : SourceRemove(i)
    \/ \E fetched \in {source, <<>>} : InitializeOnStartup(fetched, "m1")
    \/ \E m \in MonitorThreads : StartMonitoring(m)
    \/ StopMonitoring
    \/ \E m \in MonitorThreads :
          \/ MonitorTest(m)
          \/ \E reachable \in BOOLEAN : MonitorFetch(m, reachable)
          \/ MonitorCompare(m)
          \/ MonitorRaise(m)
          \/ MonitorSleep(m)

SpecMonitor == InitMonitor /\ [][NextMonitor]_vars

\* The monitor with ticks that may fail; a thread that can take a step takes
\* one.
MonitorAny(m) ==
    \/ MonitorTest(m)
    \/ \E reachable \in BOOLEAN : MonitorFetch(m, reachable)
    \/ MonitorCompare(m)
    \/ MonitorRaise(m)
    \/ MonitorSleep(m)

SpecMonitorFair ==
    /\ InitMonitor
    /\ [][NextMonitor]_vars
    /\ \A m \in MonitorThreads : WF_vars(MonitorAny(m))


\* The monitor with the source reachable: every fetch returns the users and
\* no tick raises. A thread that can take its next step takes it.
MonitorStep(m) ==
    \/ MonitorTest(m)
    \/ MonitorFetch(m, TRUE)
    \/ MonitorCompare(m)
    \/ MonitorSleep(m)

NextReachable ==
    \/ \E row \in SourceRows : SourceAdd(row)
    \/ \E i \in 1..Len(source) : SourceRemove(i)
    \/ InitializeOnStartup(source, "m1")
    \/ \E m \in MonitorThreads : StartMonitoring(m)
    \/ StopMonitoring
    \/ \E m \in MonitorThreads : MonitorStep(m)

SpecReachable ==
    /\ InitMonitor
    /\ [][NextReachable]_vars
    /\ \A m \in MonitorThreads : WF_vars(MonitorStep(m))


----------------------------------------------------------------------------
(* Concurrent mark_attendance calls, every storage call answered *)

\* One instant on each side of the UTC+8 midnight.
ConcInstants == {ClockBase, ClockBase + ClockSpan}

InitConc == InitLedger

NextConc ==
    \/ Tick(ConcInstants)
    \/ \E p \in Procs, u \in Users : MarkAttendance(p, u)
    \/ \E p \in Procs : QueryOk(p)
    \/ \E p \in Procs : InsertOk(p)
    \/ \E p \in Procs : InsertConflict(p)
    \/ \E p \in Procs : MarkReturn(p)

SpecConc == InitConc /\ [][NextConc]_vars

----------------------------------------------------------------------------
(* Attendance Ledger: properties *)

\* The rows of a table for one (userId, scanDate) key.
RowsOf(att, u, d) ==
    LET Test(r) == r.userId = u /\ r.scanDate = d IN SelectSeq(att, Test)

Returned(p) == proc[p].pc = "return"

\* C1: after any sequence of non-overlapping mark_attendance calls, with
\* every query and insert succeeding, failing transiently or failing
\* permanently and the retries included, the attendance table holds at most
\* one row per (userId, scanDate), whether or not the store enforces the key.
C1_AtMostOneRowPerKey ==
    \A i, j \in 1..Len(attendance) :
        (attendance[i].userId = attendance[j].userId
            /\ attendance[i].scanDate = attendance[j].scanDate) => i = j

\* A retried call on a store without the constraint: the insert timed out
\* after the row was committed, and the next attempt found that row.
C1_Witness ==
    /\ ~unique
    /\ Returned("p1") /\ proc["p1"].attempt > 0 /\ proc["p1"].result.existing
    /\ Len(attendance) >= 2
    /\ proc["p1"].att0 # attendance

\* C2: on a store that enforces the key, concurrent mark_attendance calls for
\* one identity and day leave exactly one row for that key once they have
\* returned, under every interleaving of their queries and inserts.
C2_ExactlyOneRow ==
    unique => \A p \in Procs :
        Returned(p) => Len(RowsOf(attendance, proc[p].user_id, proc[p].today)) = 1

\* Two calls for the same key overlapped: both queried before either inserted.
C2_Witness ==
    /\ unique
    /\ \E p, q \in Procs :
        /\ p # q /\ Returned(p) /\ Returned(q)
        /\ proc[p].user_id = proc[q].user_id /\ proc[p].today = proc[q].today
        /\ proc[p].result.kind = "new" /\ proc[q].conflict

\* C3: a call whose insert was rejected for the unique key returns success
\* with existing = true.
C3_ConflictIsSuccess ==
    \A p \in Procs :
        (Returned(p) /\ proc[p].conflict)
            => (proc[p].result.success /\ proc[p].result.existing)

\* C4: a mark_attendance call that meets no storage failure and finds no row
\* for (user, today) inserts exactly that row and reports existing = false;
\* one that finds a row inserts nothing, leaves the table as it was and
\* reports existing = true with the scanTime of the stored row; either way
\* one row is stored for the key.
C4_Idempotent ==
    \A p \in Procs :
        (Returned(p) /\ proc[p].op = "mark" /\ proc[p].attempt = 0
                /\ proc[p].result.success) =>
            LET r == proc[p]
                before == RowsOf(r.att0, r.user_id, r.today)
            IN  /\ Len(RowsOf(attendance, r.user_id, r.today)) = 1
                /\ IF before = <<>>
                   THEN /\ ~r.result.existing
                        /\ attendance = Append(r.att0,
                               [userId |-> r.user_id, scanDate |-> r.today,
                                scanTime |-> r.result.attendance_time])
                        /\ r.result.attendance_time = r.current_time
                   ELSE /\ r.result.existing
                        /\ attendance = r.att0
                        /\ r.result.attendance_time = before[1].scanTime

\* The second call of a day, made later than the first: it reports the first
\* call's scanTime.
C4_Witness ==
    /\ Returned("p1") /\ proc["p1"].op = "mark" /\ proc["p1"].attempt = 0
    /\ proc["p1"].result.existing
    /\ proc["p1"].result.attendance_time < proc["p1"].current_time
    /\ attendance = proc["p1"].att0

----------------------------------------------------------------------------
(* Similarity Matcher and Gallery: properties *)

Matched(p) == proc[p].pc = "matched"

\* The cosine of the query of p with gallery entry i, and the reference
\* answer: the first entry of maximal similarity, if that exceeds the threshold.
SimOf(p, i) == calculate_similarity(proc[p].query, face_database[i].embedding)
MaxSim(p) ==
    CHOOSE m \in {SimOf(p, i) : i \in 1..Len(face_database)} :
        \A i \in 1..Len(face_database) : SimOf(p, i) <= m
FirstMax(p) ==
    CHOOSE i \in 1..Len(face_database) :
        /\ SimOf(p, i) = MaxSim(p)
        /\ \A j \in 1..(i - 1) : SimOf(p, j) < MaxSim(p)
Reference(p) ==
    IF face_database # <<>> /\ MaxSim(p) > similarity_threshold
    THEN [user_id |-> face_database[FirstMax(p)].key,
          user_data |-> face_database[FirstMax(p)].user_data,
          similarity |-> MaxSim(p)]
    ELSE None

\* C5: whatever the gallery and the threshold, a match returned by
\* recognize_face_from_image names an entry whose similarity to the query is
\* strictly greater than the threshold.
C5_MatchAboveThreshold ==
    \A p \in Procs :
        (Matched(p) /\ proc[p].match # None) =>
            /\ proc[p].match.user_id \in KeysOf(face_database)
            /\ proc[p].match.similarity
                 = SimOf(p, IndexOf(face_database, proc[p].match.user_id))
            /\ proc[p].match.similarity > similarity_threshold

\* Threshold 0.99, one entry at similarity 0.8: no match.
C5_Witness ==
    /\ Matched("p1") /\ proc["p1"].query # NoFace
    /\ similarity_threshold = 99
    /\ Len(face_database) = 1 /\ SimOf("p1", 1) = 80
    /\ proc["p1"].match = None

\* C6: the matcher returns the first entry of maximal similarity when that
\* similarity is strictly greater than the threshold, and no match otherwise,
\* the empty gallery included.
C6_MatchIsReference ==
    \A p \in Procs :
        (Matched(p) /\ proc[p].query # NoFace) => proc[p].match = Reference(p)

\* Two entries tie at the maximum above the threshold; the earlier one wins.
C6_Witness ==
    /\ Matched("p1") /\ proc["p1"].query # NoFace
    /\ \E i, j \in 1..Len(face_database) :
        /\ i < j
        /\ SimOf("p1", i) = MaxSim("p1") /\ SimOf("p1", j) = MaxSim("p1")
        /\ MaxSim("p1") > similarity_threshold
        /\ proc["p1"].match.user_id = face_database[i].key

----------------------------------------------------------------------------
(* Recognition Cooldown Tracker: properties *)

\* Thread p takes the cooldown test in this step: Suppressed is its outcome.
AtGate(p) == proc[p].pc = "cooldown" /\ proc'[p].pc # "cooldown"
Suppressed(p) == proc'[p].response.kind = "cooldown"

\* C7 as stated: a recognition less than the window after the previous
\* recognition of the same identity is suppressed, and one the window or
\* more after it is not.
C7_WindowFromPreviousRecognition ==
    [][\A p \in Procs : AtGate(p) =>
          LET previous == recognitions[proc[p].user_id].latest
          IN  previous # NoTime =>
                (Suppressed(p) <=> now - previous < RECOGNITION_COOLDOWN)]_vars

\* C7, amended: a recognition less than the window after the latest
\* recognition of the same identity that was not itself suppressed is
\* suppressed; one the window or more after it, or the first of the identity,
\* is not.
C7_WindowFromLastPassed ==
    [][\A p \in Procs : AtGate(p) =>
          LET passed == recognitions[proc[p].user_id].passed
          IN  Suppressed(p) <=>
                (passed # NoTime /\ now - passed < RECOGNITION_COOLDOWN)]_vars

\* A recognition exactly one window after the one that passed, with a
\* suppressed one in between, has passed the test.
C7_Witness ==
    /\ proc["p1"].pc = "stamp"
    /\ last_recognition[proc["p1"].user_id] # NoTime
    /\ proc["p1"].t - last_recognition[proc["p1"].user_id] = RECOGNITION_COOLDOWN
    /\ recognitions[proc["p1"].user_id].latest = proc["p1"].t

\* C8: a recognition that took the cooldown branch makes no storage call: it
\* never enters mark_attendance and the attendance table is as it was when
\* the request came in.
C8_SuppressedWritesNothing ==
    \A p \in Procs :
        proc[p].suppressed =>
            /\ proc[p].pc = "responded"
            /\ proc[p].response.kind = "cooldown"
            /\ proc[p].result = NoResult
            /\ attendance = proc[p].att0

\* A suppressed recognition of an identity whose attendance row is stored.
C8_Witness ==
    /\ proc["p1"].suppressed
    /\ StoreHasKey(attendance, proc["p1"].user_id, get_ph_date(now))

----------------------------------------------------------------------------
(* Gallery replacement beside readers *)

\* C9: a recognition that runs beside a /refresh scans a complete gallery,
\* the one before the replacement or the one after it: when its scan is over
\* it has met no error and the entries it compared are, in order, those of a
\* gallery that was complete during the scan.
C9_ScanSeesCompleteGallery ==
    \A p \in Procs :
        (Matched(p) /\ proc[p].query # NoFace /\ proc[p].complete # {}) =>
            /\ ~proc[p].error
            /\ proc[p].scanned \in proc[p].complete

----------------------------------------------------------------------------
(* Threshold: properties *)

InRange(x) == x # NaN /\ 0 <= x /\ x <= 100
Answered(p) == proc[p].pc = "responded" /\ proc[p].op = "threshold"

\* C11: the threshold starts at 0.5 and is in [0.0, 1.0] in every state; an
\* update with a value outside the range answers failure and leaves the
\* threshold as it was, one with a value inside it answers success and the
\* threshold is that value.
C11_ThresholdInRange ==
    /\ similarity_threshold = DefaultThreshold
    /\ [](/\ InRange(similarity_threshold)
          /\ \A p \in Procs : Answered(p) =>
                IF InRange(proc[p].new_threshold)
                THEN /\ proc[p].response.success
                     /\ similarity_threshold = proc[p].new_threshold
                ELSE /\ ~proc[p].response.success
                     /\ similarity_threshold = proc[p].threshold0)

\* An update to 1.1 was refused while the threshold was 0.99.
C11_Witness ==
    /\ Answered("p2") /\ proc["p2"].new_threshold = 110
    /\ ~proc["p2"].response.success
    /\ similarity_threshold = 99

\* C12: a scan accepts its candidates against the threshold in force when the
\* call began: with the gallery unchanged, its result is the one the matcher
\* gives for that threshold, whatever updates ran beside it.
C12_ScanUsesOneThreshold ==
    \A p \in Procs :
        (Matched(p) /\ proc[p].query # NoFace /\ ~proc[p].error) =>
            proc[p].match = recognize_face_from_image(face_database, proc[p].query,
                                                      proc[p].threshold0)

----------------------------------------------------------------------------
(* Attendance Ledger: retries and days *)

InCall(p) == proc[p].pc \in {"query", "insert", "sleep", "return"}

\* C13: a mark_attendance call makes at most 3 attempts; a new attempt is
\* made only after a transport failure (SSL, timeout, connection) and while
\* fewer than 3 attempts were made; any other failure, and the failure of the
\* third attempt, is returned as a failure with no attempt after it.
C13_BoundedRetries ==
    \A p \in Procs : InCall(p) =>
        /\ proc[p].attempt + 1 <= 3
        /\ ~proc[p].retried_other
        /\ proc[p].pc # "return" => proc[p].failures = proc[p].attempt
        /\ proc[p].pc = "return" =>
              IF proc[p].result.success
              THEN proc[p].failures = proc[p].attempt
              ELSE /\ proc[p].failures = proc[p].attempt + 1
                   /\ proc[p].result.err \in {"SSL", "timeout", "connection"}
                         => proc[p].attempt + 1 = 3

\* Three transport failures: the third is returned as the failure.
C13_Witness ==
    /\ proc["p1"].pc = "return" /\ proc["p1"].op = "mark"
    /\ proc["p1"].failures = 3
    /\ proc["p1"].result.err = "timeout"

----------------------------------------------------------------------------
(* /recognize responses *)

Responded(p) == proc[p].pc = "responded" /\ proc[p].op = "recognize"

\* C14: when the identity was matched and mark_attendance returned a failure,
\* the response of /recognize is a failed one (success false) that still
\* tells the identity was recognized, so that it differs from a recorded
\* recognition and from a not-identified response.
C14_WriteFailureIsFailedResponse ==
    \A p \in Procs :
        (Responded(p) /\ proc[p].match # None /\ proc[p].result.kind = "error") =>
            /\ ~proc[p].response.success
            /\ proc[p].response.recognized

----------------------------------------------------------------------------
(* The ledger day *)

\* The calendar day at UTC+8 of an instant, and the rows of a user on it.
DayPlus8(t) == (t + 28800) \div 86400
RowsOnDay(att, u, d) ==
    LET Test(r) == r.userId = u /\ DayPlus8(r.scanTime) = d IN SelectSeq(att, Test)

\* C15: the day of a recognition is the UTC+8 calendar day of its instant. A
\* recognition of an identity that has a record of that day, whatever the UTC
\* dates of the two, adds nothing and reports existing = true; one on a day
\* without a record of the identity adds the record and reports existing =
\* false.
C15_LedgerDayIsPlus8 ==
    \A p \in Procs :
        (Responded(p) /\ proc[p].result.success) =>
            LET r == proc[p]
                d == DayPlus8(r.current_time)
            IN  /\ r.today = d
                /\ IF RowsOnDay(r.att0, r.user_id, d) # <<>>
                   THEN r.result.existing /\ attendance = r.att0
                   ELSE /\ ~r.result.existing
                        /\ attendance = Append(r.att0, attendance_data(r))
                        /\ Len(RowsOnDay(attendance, r.user_id, d)) = 1

\* The second recognition of a UTC+8 day, made after the UTC date changed,
\* and a record of the day before in the table.
C15_Witness ==
    /\ Responded("p1") /\ proc["p1"].result.existing
    /\ proc["p1"].current_time \div 86400 # proc["p1"].result.attendance_time \div 86400
    /\ Len(attendance) >= 2
    /\ attendance[1].userId = attendance[2].userId

----------------------------------------------------------------------------
(* Auto-Reload Monitor: properties *)

\* Thread m ends the comparison of a tick in this step, with a list fetched.
Compared(m) ==
    /\ monitor.threads[m].pc = "compare"
    /\ monitor'.threads[m].pc = "sleep"
    /\ ~monitor'.threads[m].failed

\* C16: a tick that fetched more users than the last-observed count runs a
\* re-enrollment pass over the fetched users and takes their number as the
\* last-observed count, whatever that count was, 0 included.
C16_GrowthTriggersReload ==
    [][\A m \in MonitorThreads :
          (Compared(m) /\ Len(monitor.threads[m].users) > monitor.known_user_count) =>
              /\ monitor'.threads[m].pass
              /\ face_database' = RegisterFrom(face_database, monitor.threads[m].users, 1)
              /\ monitor'.known_user_count = Len(monitor.threads[m].users)]_vars

\* The source holds user u with a usable face image.
Usable(u) ==
    \E i \in 1..Len(source) :
        source[i].id = u /\ source[i].faceScannedUrl # "" /\ source[i].image # NoFace

\* C17: while monitoring is enabled and the source is reachable, a user of
\* the source with a usable face image is eventually in the gallery, unless
\* the user is removed or monitoring is stopped first.
C17_AddedIsEventuallyEnrolled ==
    \A u \in Users :
        (Usable(u) /\ monitor.auto_reload_enabled)
            ~> (u \in KeysOf(face_database) \/ ~Usable(u)
                   \/ ~monitor.auto_reload_enabled)

\* C18: a tick that fails, by an exception or by fetching nothing, leaves its
\* thread in the loop, and while monitoring stays enabled the thread begins
\* another tick afterwards.
C18_FailedTickIsFollowed ==
    \A m \in MonitorThreads :
        /\ [](monitor.threads[m].failed =>
                 monitor.threads[m].pc \in {"compare", "sleep", "test", "fetch"})
        /\ (monitor.threads[m].failed /\ monitor.threads[m].pc = "sleep")
              ~> (monitor.threads[m].pc = "fetch" \/ ~monitor.auto_reload_enabled)

\* The tick after a failed one has begun.
C18_Witness ==
    /\ monitor.threads["m1"].pc = "fetch" /\ monitor.threads["m1"].failed
    /\ monitor.auto_reload_enabled

\* C19: once monitoring is disabled, every monitoring thread ends unless
\* monitoring is started again, and a thread begins a tick only while
\* monitoring is enabled, so that no re-enrollment follows the tick that was
\* under way at the stop.
C19_StopEndsLoop ==
    /\ [][\A m \in MonitorThreads :
             (monitor.threads[m].pc = "test" /\ monitor'.threads[m].pc = "fetch")
                 => monitor.auto_reload_enabled]_vars
    /\ \A m \in MonitorThreads :
          (monitor.phase = "running" /\ ~monitor.auto_reload_enabled)
              ~> (monitor.threads[m].pc = "none" \/ monitor.auto_reload_enabled)

\* Monitoring was stopped during a tick that re-enrolled, and the thread ended.
C19_Witness ==
    /\ monitor.phase = "running" /\ ~monitor.auto_reload_enabled
    /\ \A m \in MonitorThreads : monitor.threads[m].pc = "none"
    /\ monitor.known_user_count = 2
    /\ Len(face_database) = 2

----------------------------------------------------------------------------
(* /recognize over galleries of every origin *)

\* The gallery at the first request: rows loaded from the face_embeddings
\* table by __init__, or, when there were none, the users registered by
\* initialize_on_startup.
InitPaths ==
    /\ face_database \in (LoadedGalleries \ {<<>>}) \cup
                         {<<RegisteredEntry("u1", <<5, 0>>), RegisteredEntry("u2", <<0, 5>>)>>}
    /\ similarity_threshold = DefaultThreshold
    /\ last_recognition = [u \in Users |-> NoTime]
    /\ attendance = <<>>
    /\ unique = TRUE
    /\ now = ClockBase
    /\ proc = [p \in Procs |-> Idle]
    /\ enrolled = NoEnrollment
    /\ embeddings_file = NoFile
    /\ recognitions = NoRecognitions
    /\ refresh = NoRefresh
    /\ monitor = NoMonitor
    /\ source = <<>>

NextPaths ==
    \/ Tick(Instants)
    \/ \E d \in DetailIds, u \in Users, image \in {<<4, 3>>, NoFace},
          user_data \in ClientUserData :
          EnrollFaceFromBase64(d, u, image, user_data, "ok")
    \/ \E q \in Queries : RecognizeFace("p1", q)
    \/ CooldownCheck("p1")
    \/ CooldownStamp("p1")
    \/ QueryOk("p1")
    \/ InsertOk("p1")
    \/ RecognizeRespond("p1")
    \/ Finish("p1")

SpecPaths == InitPaths /\ [][NextPaths]_vars

C21_SuppressedReportsIdentity ==
    \A p \in Procs :
        (Responded(p) /\ proc[p].suppressed) =>
            proc[p].response.user = proc[p].user_id

----------------------------------------------------------------------------
(* Gallery mutations whose snapshot write may fail *)

InitMutations == InitGallery

NextMutations ==
    \/ \E users_data \in RefreshUsers, outcome \in SaveOutcomes :
          RegisterMultipleFaces(users_data, outcome)
    \/ \E d \in DetailIds, u \in Users, image \in {<<4, 3>>, NoFace},
          user_data \in ClientUserData, outcome \in SaveOutcomes :
          EnrollFaceFromBase64(d, u, image, user_data, outcome)
    \/ \E k \in GalleryKeys, outcome \in SaveOutcomes : RemoveRoute("p1", k, outcome)
    \/ Finish("p1")

SpecMutations == InitMutations /\ [][NextMutations]_vars

Removed(p) == proc[p].pc = "responded" /\ proc[p].op = "remove"

\* C22: removing an identity that is absent is answered not-found and leaves
\* the gallery as it was; removing one that is present deletes its entry and
\* keeps every other entry, in the same order.
C22_RemoveExactlyOne ==
    \A p \in Procs : Removed(p) =>
        LET before == proc[p].before
            Others == {i \in 1..Len(before) : before[i].key # proc[p].user_id}
        IN  IF proc[p].user_id \in KeysOf(before)
            THEN /\ proc[p].response.success /\ proc[p].status = 200
                 /\ Len(face_database) = Cardinality(Others)
                 /\ proc[p].user_id \notin KeysOf(face_database)
                 /\ \A i \in Others : \E j \in 1..Len(face_database) :
                        /\ face_database[j] = before[i]
                        /\ j = Cardinality({h \in Others : h <= i})
            ELSE /\ ~proc[p].response.success /\ proc[p].status = 404
                 /\ face_database = before

\* An entry was removed from a gallery of two, and the other one stayed.
C22_Witness ==
    /\ Removed("p1") /\ proc["p1"].response.success
    /\ Len(proc["p1"].before) = 2 /\ proc["p1"].before[1].key = proc["p1"].user_id
    /\ Len(face_database) = 1

----------------------------------------------------------------------------
(* The matcher over embeddings that may have zero norm *)

\* Galleries of one or two users whose stored embeddings may be all zeros.
StoredEmbeddings == {<<5, 0>>, <<0, 5>>, ZeroVec}
DegenerateGalleries ==
    {<<[key |-> "u1", embedding |-> e, user_data |-> [id |-> "u1", profile |-> TRUE]]>> :
        e \in StoredEmbeddings} \cup
    {<<[key |-> "u1", embedding |-> e1, user_data |-> [id |-> "u1", profile |-> TRUE]],
       [key |-> "u2", embedding |-> e2, user_data |-> [id |-> "u2", profile |-> TRUE]]>> :
        e1 \in StoredEmbeddings, e2 \in StoredEmbeddings}
DegenerateQueries == {<<5, 0>>, <<3, 4>>, ZeroVec}

InitSimilarity ==
    /\ face_database \in DegenerateGalleries
    /\ similarity_threshold = DefaultThreshold
    /\ last_recognition = [u \in Users |-> NoTime]
    /\ attendance = <<>>
    /\ unique = TRUE
    /\ now = ClockBase
    /\ proc = [p \in Procs |-> Idle]
    /\ enrolled = NoEnrollment
    /\ embeddings_file = NoFile
    /\ recognitions = NoRecognitions
    /\ refresh = NoRefresh
    /\ monitor = NoMonitor
    /\ source = <<>>

NextSimilarity ==
    \/ \E t \in ThresholdInputs : UpdateThreshold(t)
    \/ \E q \in DegenerateQueries : RecognizeFaceFromImage("p1", q)
    \/ MatchReturn("p1")

SpecSimilarity == InitSimilarity /\ [][NextSimilarity]_vars

\* C23: a match in which the query or a stored embedding has zero norm ends
\* with an error for the caller.
C23_ZeroNormIsError ==
    \A p \in Procs :
        (/\ Matched(p)
         /\ \/ Norm(proc[p].query) = 0
            \/ \E i \in 1..Len(face_database) : Norm(face_database[i].embedding) = 0)
        => proc[p].error

----------------------------------------------------------------------------
(* Loading the gallery from the face_embeddings table *)

\* The length of the embeddings the face model yields (512 in the program).
Dim == 2

\* Rows of the face_embeddings table: the embedding column holds whatever
\* list was stored.
TableEmbeddings == {<<0, 5>>, <<5>>, <<3, 4, 0>>}
TableRows ==
    {[user_detail_id |-> d, user_id |-> "u1", embedding |-> e] :
        d \in GalleryKeys, e \in TableEmbeddings}
TableContents ==
    {<<>>} \cup {<<r>> : r \in TableRows} \cup {<<r1, r2>> : r1 \in TableRows, r2 \in TableRows}

\* The loop of load_embeddings_from_database from row i on.
RECURSIVE LoadFrom(_, _, _)
LoadFrom(db, embeddings, i) ==
    IF i > Len(embeddings) THEN db
    ELSE LoadFrom(DictSet(db, embeddings[i].user_detail_id,
                          [embedding |-> embeddings[i].embedding, user_data |-> NoData]),
                  embeddings, i + 1)

RECURSIVE LoadRecord(_, _, _)
LoadRecord(h, embeddings, i) ==
    IF i > Len(embeddings) THEN h
    ELSE LoadRecord(Record(h, embeddings[i].user_detail_id, embeddings[i].embedding),
                    embeddings, i + 1)

\* load_embeddings_from_database(): the gallery is cleared and refilled from
\* the rows; the snapshot file is not written.
LoadEmbeddingsFromDatabase(embeddings) ==
    /\ proc["p1"].pc = "idle"
    /\ face_database' = LoadFrom(<<>>, embeddings, 1)
    /\ enrolled' = LoadRecord([NoEnrollment EXCEPT !.replaced = enrolled.replaced],
                              embeddings, 1)
    /\ UNCHANGED <<similarity_threshold, last_recognition, attendance, unique, now, proc,
                   embeddings_file, recognitions, refresh, monitor, source>>

InitLoad == InitGallery

NextLoad ==
    \/ \E embeddings \in TableContents : LoadEmbeddingsFromDatabase(embeddings)
    \/ \E d \in DetailIds, u \in Users, image \in {<<4, 3>>, NoFace},
          user_data \in ClientUserData :
          EnrollFaceFromBase64(d, u, image, user_data, "ok")
    \/ \E k \in GalleryKeys : RemoveRoute("p1", k, "ok")
    \/ Finish("p1")

SpecLoad == InitLoad /\ [][NextLoad]_vars

\* C24: an embedding of another length than the fixed one is refused by
\* every insertion, so every stored embedding has the fixed length.
C24_StoredEmbeddingsHaveFixedDimension ==
    \A i \in 1..Len(face_database) : Len(face_database[i].embedding) = Dim

\* The snapshot file does not hold the gallery: the last write failed.
StaleFile == embeddings_file # [state |-> "ok", data |-> face_database]

\* C25: when the snapshot write after an enrollment, a bulk registration or a
\* removal failed, the gallery still holds exactly what those operations
\* stored and removed, and the removal of a present entry is answered as
\* done.
C25_SaveFailureKeepsMutation ==
    StaleFile =>
        /\ KeysOf(face_database) = DOMAIN enrolled.by
        /\ \A i \in 1..Len(face_database) :
              face_database[i].embedding = enrolled.by[face_database[i].key]
        /\ \A p \in Procs :
              (Removed(p) /\ proc[p].user_id \in KeysOf(proc[p].before)) =>
                  /\ proc[p].response.success /\ proc[p].status = 200
                  /\ proc[p].user_id \notin KeysOf(face_database)

\* A removal whose snapshot write broke the file, answered as done.
C25_Witness ==
    /\ Removed("p1") /\ proc["p1"].response.success
    /\ embeddings_file.state = "corrupt"
    /\ Len(face_database) = 1 /\ Len(proc["p1"].before) = 2

----------------------------------------------------------------------------
(* /recognize requests served by two threads at once *)

GateQueries == {<<5, 0>>, <<0, 5>>}

InitGate == InitSeq

NextGate ==
    \/ Tick(ConcInstants)
    \/ \E p \in Procs, q \in GateQueries : RecognizeFace(p, q)
    \/ \E p \in Procs : CooldownCheck(p)
    \/ \E p \in Procs : CooldownStamp(p)
    \/ \E p \in Procs : QueryOk(p)
    \/ \E p \in Procs : InsertOk(p)
    \/ \E p \in Procs : InsertConflict(p)
    \/ \E p \in Procs : RecognizeRespond(p)
    \/ \E p \in Procs : Finish(p)

SpecGate == InitGate /\ [][NextGate]_vars

\* The request of p went through the cooldown test and was not suppressed.
Passed(p) == proc[p].op = "recognize" /\ proc[p].t # NoTime /\ ~proc[p].suppressed

\* C29: of two requests for one identity that are in progress together and
\* took the cooldown test less than a window apart, at most one passed it.
C29_OnePassesPerWindow ==
    \A p \in Procs, q \in Procs :
        (p # q /\ Passed(p) /\ Passed(q) /\ proc[p].user_id = proc[q].user_id) =>
            \/ proc[p].t - proc[q].t >= RECOGNITION_COOLDOWN
            \/ proc[q].t - proc[p].t >= RECOGNITION_COOLDOWN

C27_NoGrowthNoReload ==
    [][\A m \in MonitorThreads :
          (Compared(m) /\ Len(monitor.threads[m].users) <= monitor.known_user_count) =>
              /\ face_database' = face_database
              /\ ~monitor'.threads[m].pass
              /\ monitor'.known_user_count <= monitor.known_user_count]_vars

\* A tick compared and ran no pass while the source holds as many users as
\* were counted, one of them with a usable image and not in the gallery.
C27_Witness ==
    /\ monitor.threads["m1"].pc = "sleep"
    /\ ~monitor.threads["m1"].failed /\ ~monitor.threads["m1"].pass
    /\ monitor.known_user_count = Len(source) /\ Len(source) >= 1
    /\ \E u \in Users : Usable(u) /\ u \notin KeysOf(face_database)

\* C28: at most one thread runs the monitor loop.
C28_AtMostOneLoop ==
    Cardinality({m \in MonitorThreads : monitor.threads[m].pc # "none"}) <= 1

\* C30: the identity under which a recognition that was not suppressed keeps
\* its cooldown entry and writes attendance is the gallery key of the entry
\* it matched.
C30_IdentityIsGalleryKey ==
    \A p \in Procs :
        (Passed(p) /\ proc[p].match # None) => proc[p].user_id = proc[p].match.user_id

====
